---- MODULE Spec2Model ----
(***************************************************************************)
(* Model of parastack's dispatch engine (src/parastack/dispatcher.py and   *)
(* src/parastack/emitter.py): the Emitter tree, the Dispatcher's           *)
(* registration table, the normalized handlers (_FuncNormalizedHandler,    *)
(* _GenNormalizedHandler, _MultiHandler) and the shutdown protocol.        *)
(*                                                                         *)
(* Emitter identities are id(emitter), i.e. memory addresses: they are     *)
(* modelled as a small pool of slots, and a slot freed by the destruction  *)
(* of an emitter can be taken by an emitter created later.                 *)
(*                                                                         *)
(* User code (handler functions and generators) is nondeterministic: each  *)
(* action draws an oracle that says how every handler member reacts.       *)
(*                                                                         *)
(* The scoped uses of a forked emitter (with-block, call on a function,    *)
(* on a coroutine, on a future) and the wait combinator of                 *)
(* src/parastack/utils.py are modelled as well.                            *)
(***************************************************************************)
EXTENDS Integers, Sequences, FiniteSets, TLC

\* ------------------------------------------------------------------ bounds
NumSlots == 2          \* emitter identities (addresses) available
ChainSlots == 4        \* emitter identities available when chains are built
MaxMembers == 2        \* handlers passed to one Dispatcher / fork call
MaxHandlers == 2       \* handler members registered at one time
MaxPending == 1        \* coroutines / futures one emitter is draped around at a time
MaxBurst == 2          \* events a caller sends in a row
MaxLen == 3            \* events fed to one wait generator
NestSlots == 3         \* emitter identities available to handlers that use the library

Slots == 1..NumSlots
ChainIds == 1..ChainSlots
NestIds == 1..NestSlots
AllSlots == Slots \cup ChainIds \cup NestIds
NoEmitter == 0         \* absent _parent; dummy sender id used by __exit__
RootRef == 0           \* names the root handler where an eid names a registration

\* ------------------------------------------------------- events, signals
PlainEvents == {"x"}
JoinedKinds == {"Joined", "HandlerDone", "HandlerFailed",
                "EmitterDeallocated", "DispatcherClosed"}
TermSignals == {"Joined", "EmitterDeallocated", "DispatcherClosed"}
IsJoined(x) == x \in JoinedKinds

\* what user code does when it is resumed
FuncOutcomes == {"return", "raise", "done"}
GenSendOutcomes == {"yield", "return", "raise", "done"}
GenThrowOutcomes == {"propagate", "return", "raise", "yield"}

HandlerKinds == {"func", "gen"}
HandlerShapes == UNION {[1..n -> HandlerKinds] : n \in 1..MaxMembers}
SingleShapes == [1..1 -> HandlerKinds]

VARIABLES
    alive,            \* slots holding an emitter object
    parent,           \* _ForkedEmitter._parent (a strong reference)
    held,             \* emitters the application still references
    eid_to_handler,   \* Dispatcher.__eid_to_handler: entries in insertion order,
                      \* each with the closure state of its handler_wrapper
    root_handler,     \* the normalized root handler
    pending,          \* coroutines and futures a forked emitter is draped around
    waiter,           \* a generator made by wait() or by wait_through(f)()
    obtained,         \* the object the application got from void_emitter.forked
    last              \* history: the last operation and what it did

vars == <<alive, parent, held, eid_to_handler, root_handler, pending, waiter, obtained, last>>

\* ------------------------------------------------------------- plumbing
\* The Dispatcher's mutable state is threaded through the operators below as
\* a record d = [tbl, root, calls, routed, sent, running]; every operator
\* returns the new record and the exception that leaves it ("none" for a
\* normal return).  A handler is named by ref: the eid of its table entry, or
\* RootRef.  running holds the refs of the handlers whose function or
\* generator is executing at this point of the call stack.
Res(d, exc) == [d |-> d, exc |-> exc]

\* x is computed once and handed to what follows.
With(x, F(_)) == F(x)

Bump(n) == IF n < 2 THEN n + 1 ELSE 2      \* 2 stands for "more than once"

TblEids(tbl) == {tbl[k].eid : k \in 1..Len(tbl)}
TblIdx(tbl, eid) == CHOOSE k \in 1..Len(tbl) : tbl[k].eid = eid
TblRemove(tbl, eid) == SelectSeq(tbl, LAMBDA en : en.eid # eid)

H(d, ref) == IF ref = RootRef THEN d.root ELSE d.tbl[TblIdx(d.tbl, ref)].h

\* A call of a normalized member's send/throw that got past its assertion,
\* with the handlers that were executing when it was made.
Note(d, ref, i, via, ev, out) ==
    [d EXCEPT !.calls = Append(@, [ref |-> ref, m |-> i, of |-> Len(H(d, ref)),
                                   kind |-> H(d, ref)[i].kind, via |-> via,
                                   ev |-> ev, out |-> out,
                                   during |-> d.running])]

\* The Dispatcher calls the callable it keeps for ref (a table value or the
\* root handler wrapper).
Routed(d, ref) == [d EXCEPT !.routed = Append(@, ref)]

SetDone(d, ref, i) ==
    IF ref = RootRef THEN [d EXCEPT !.root[i].done = TRUE]
    ELSE [d EXCEPT !.tbl[TblIdx(d.tbl, ref)].h[i].done = TRUE]

\* History kept in the entry of eid: one more termination signal addressed to
\* the registration has reached a member of its handler.  An entry that the
\* operation removed keeps no history.
Delivered(d, eid, sig) ==
    \E k \in 1..Len(d.calls) : d.calls[k].ref = eid /\ d.calls[k].ev = sig

Signalled(r, eid, sig) ==
    IF sig \in TermSignals /\ eid \in TblEids(r.d.tbl) /\ Delivered(r.d, eid, sig)
    THEN Res([r.d EXCEPT !.tbl[TblIdx(r.d.tbl, eid)].signalled = Bump(@)], r.exc)
    ELSE r

\* ------------------------------------------------- _FuncNormalizedHandler
\* (mutant of FuncNormalizedHandler_send) an error raised by the function ends
\* the handler, as an error raised by a generator does.
FuncNormalizedHandler_send_failing(d, ref, i, ev, o) ==
    IF H(d, ref)[i].done THEN Res(d, "AssertionError")
    ELSE With(Note(d, ref, i, "send", ev, o.send), LAMBDA d1 :
         CASE o.send = "done"  -> Res(SetDone(d1, ref, i), "HandlerDone")
           [] o.send = "raise" -> Res(SetDone(d1, ref, i), "HandlerFailed")
           [] OTHER            -> Res(d1, "none"))

FuncNormalizedHandler_send(d, ref, i, ev, o) ==
    IF H(d, ref)[i].done THEN Res(d, "AssertionError")
    ELSE With(Note(d, ref, i, "send", ev, o.send), LAMBDA d1 :
         IF o.send = "done"
         THEN Res(SetDone(d1, ref, i), "HandlerDone")
         ELSE Res(d1, "none"))      \* returned, or raised and was swallowed

FuncNormalizedHandler_throw(d, ref, i, sig) ==
    IF H(d, ref)[i].done THEN Res(d, "AssertionError")
    ELSE Res(SetDone(Note(d, ref, i, "throw", sig, "propagate"), ref, i), sig)

\* -------------------------------------------------- _GenNormalizedHandler
\* (mutant of GenNormalizedHandler_send) an error raised by the generator is
\* swallowed, as an error raised by a function is.
GenNormalizedHandler_send_swallowing(d, ref, i, ev, o) ==
    IF H(d, ref)[i].done THEN Res(d, "AssertionError")
    ELSE IF ref \in d.running
    THEN Res(Note(d, ref, i, "send", ev, "ValueError"), "HandlerFailed")
    ELSE With(Note(d, ref, i, "send", ev, o.send), LAMBDA d1 :
         CASE o.send = "yield"  -> Res(d1, "none")
           [] o.send = "return" -> Res(SetDone(d1, ref, i), "HandlerDone")
           [] o.send = "done"   -> Res(SetDone(d1, ref, i), "HandlerDone")
           [] OTHER             -> Res(SetDone(d1, ref, i), "none"))

\* done is "the generator is closed": it closes when it returns or raises.
\* A generator that is executing is not closed, and resuming it raises
\* ValueError ("generator already executing") without closing it.
GenNormalizedHandler_send(d, ref, i, ev, o) ==
    IF H(d, ref)[i].done THEN Res(d, "AssertionError")
    ELSE IF ref \in d.running
    THEN Res(Note(d, ref, i, "send", ev, "ValueError"), "HandlerFailed")
    ELSE With(Note(d, ref, i, "send", ev, o.send), LAMBDA d1 :
         CASE o.send = "yield"  -> Res(d1, "none")
           [] o.send = "return" -> Res(SetDone(d1, ref, i), "HandlerDone")
           [] o.send = "done"   -> Res(SetDone(d1, ref, i), "HandlerDone")
           [] OTHER             -> Res(SetDone(d1, ref, i), "HandlerFailed"))

GenNormalizedHandler_throw(d, ref, i, sig, o) ==
    IF H(d, ref)[i].done THEN Res(d, "AssertionError")
    ELSE IF ref \in d.running
    THEN Res(Note(d, ref, i, "throw", sig, "ValueError"), "HandlerFailed")
    ELSE With(Note(d, ref, i, "throw", sig, o.throw), LAMBDA d1 :
         CASE o.throw = "propagate" -> Res(SetDone(d1, ref, i), sig)
           [] o.throw = "return"    -> Res(SetDone(d1, ref, i), sig)
           [] o.throw = "raise"     -> Res(SetDone(d1, ref, i), "HandlerFailed")
           [] OTHER                 -> Res(d1, sig))  \* swallowed, suspended again

MemberSend(d, ref, i, ev, o) ==
    IF H(d, ref)[i].kind = "func"
    THEN FuncNormalizedHandler_send(d, ref, i, ev, o)
    ELSE GenNormalizedHandler_send(d, ref, i, ev, o)

MemberThrow(d, ref, i, sig, o) ==
    IF H(d, ref)[i].kind = "func"
    THEN FuncNormalizedHandler_throw(d, ref, i, sig)
    ELSE GenNormalizedHandler_throw(d, ref, i, sig, o)

\* ----------------------------------------------------------- _MultiHandler
MultiHandler_done(h) == \A i \in 1..Len(h) : h[i].done

\* (mutant of MultiSendLoop) the event is offered to one member only.
MultiSendLoop_first(d, ref, ev, O, i) ==
    IF i > Len(H(d, ref)) THEN Res(d, "none")
    ELSE MemberSend(d, ref, i, ev, O[i])

RECURSIVE MultiSendLoop(_, _, _, _, _)
MultiSendLoop(d, ref, ev, O, i) ==
    IF i > Len(H(d, ref)) THEN Res(d, "none")
    ELSE With(MemberSend(d, ref, i, ev, O[i]), LAMBDA r :
         IF r.exc = "none" \/ IsJoined(r.exc)      \* contextlib.suppress(Joined)
         THEN MultiSendLoop(r.d, ref, ev, O, i + 1)
         ELSE r)

MultiHandler_send(d, ref, ev, O) ==
    IF MultiHandler_done(H(d, ref)) THEN Res(d, "AssertionError")
    ELSE With(MultiSendLoop(d, ref, ev, O, 1), LAMBDA r :
         IF r.exc # "none" THEN r
         ELSE IF MultiHandler_done(H(r.d, ref)) THEN Res(r.d, "HandlerDone")
         ELSE r)

RECURSIVE MultiThrowLoop(_, _, _, _, _)
MultiThrowLoop(d, ref, sig, O, i) ==
    IF i > Len(H(d, ref)) THEN Res(d, "none")
    ELSE With(MemberThrow(d, ref, i, sig, O[i]), LAMBDA r :
         IF r.exc = "none" \/ IsJoined(r.exc)
         THEN MultiThrowLoop(r.d, ref, sig, O, i + 1)
         ELSE r)

MultiHandler_throw(d, ref, sig, O) ==
    IF MultiHandler_done(H(d, ref)) THEN Res(d, "AssertionError")
    ELSE With(MultiThrowLoop(d, ref, sig, O, 1), LAMBDA r :
         IF r.exc # "none" THEN r ELSE Res(r.d, sig))

\* _normalize_handlers: one handler is wrapped directly, several are combined.
HandlerSend(d, ref, ev, O) ==
    IF Len(H(d, ref)) = 1 THEN MemberSend(d, ref, 1, ev, O[1])
    ELSE MultiHandler_send(d, ref, ev, O)

HandlerThrow(d, ref, sig, O) ==
    IF Len(H(d, ref)) = 1 THEN MemberThrow(d, ref, 1, sig, O[1])
    ELSE MultiHandler_throw(d, ref, sig, O)

normalize_handlers(shape) ==
    [i \in 1..Len(shape) |-> [kind |-> shape[i], done |-> FALSE]]

\* --------------------------------------------------------------- Dispatcher
\* (mutant of cleanup) the entry, and the finalizer with it, is left in place.
cleanup_kept(d, eid) == Res(d, "none")

\* Dispatcher.fork.cleanup: detach the finalizer, delete the table entry (the
\* finalizer and the handler live in the entry's closure and go with it).
cleanup(d, eid) ==
    IF eid \in TblEids(d.tbl)
    THEN Res([d EXCEPT !.tbl = TblRemove(@, eid)], "none")
    ELSE Res(d, "KeyError")

\* Dispatcher.fork.handler_wrapper, the value stored in the table under eid.
\* (mutant of handler_wrapper_from) every Joined is thrown into the handler,
\* whoever sent it.
handler_wrapper_from_any(r1, eid, sender_eid, ev, O) ==
    LET own == IsJoined(ev) IN
    With(IF r1.exc = "none" /\ own THEN HandlerThrow(r1.d, eid, ev, O) ELSE r1,
         LAMBDA r2 :
    With(IF IsJoined(r2.exc) THEN cleanup(r2.d, eid) ELSE r2, LAMBDA r3 :
    IF own THEN Signalled(r3, eid, ev) ELSE r3))

\* r1 is what handler.send(event) did.
handler_wrapper_from(r1, eid, sender_eid, ev, O) ==
    LET own == IsJoined(ev) /\ sender_eid = eid IN
    With(IF r1.exc = "none" /\ own THEN HandlerThrow(r1.d, eid, ev, O) ELSE r1,
         LAMBDA r2 :
    With(IF IsJoined(r2.exc) THEN cleanup(r2.d, eid) ELSE r2, LAMBDA r3 :
    IF own THEN Signalled(r3, eid, ev) ELSE r3))

handler_wrapper(d, eid, sender_eid, ev, O) ==
    handler_wrapper_from(HandlerSend(Routed(d, eid), eid, ev, O), eid, sender_eid, ev, O)

\* Dispatcher.fork.on_deallocated, run by weakref.finalize when the emitter
\* object dies; an exception that leaves it is printed and dropped.
on_deallocated(d, eid, O) ==
    With(HandlerThrow([d EXCEPT !.tbl[TblIdx(d.tbl, eid)].finalizers = 0],
                      eid, "EmitterDeallocated", O), LAMBDA r1 :
    Signalled(IF r1.exc = "none" \/ IsJoined(r1.exc) THEN cleanup(r1.d, eid) ELSE r1,
              eid, "EmitterDeallocated"))

\* (mutant of root_handler_wrapper) only DispatcherClosed is caught.
root_handler_wrapper_narrow(d, ev, O) ==
    With(HandlerSend(Routed(d, RootRef), RootRef, ev, O), LAMBDA r1 :
    With(IF r1.exc = "none" /\ ev = "DispatcherClosed"
         THEN HandlerThrow(r1.d, RootRef, ev, O)
         ELSE r1, LAMBDA r2 :
    IF r2.exc = "DispatcherClosed" THEN Res(r2.d, "none") ELSE r2))

\* Dispatcher.__init__.root_handler_wrapper: nothing leaves it.
root_handler_wrapper(d, ev, O) ==
    With(HandlerSend(Routed(d, RootRef), RootRef, ev, O), LAMBDA r1 :
    With(IF r1.exc = "none" /\ ev = "DispatcherClosed"
         THEN HandlerThrow(r1.d, RootRef, ev, O)
         ELSE r1, LAMBDA r2 :
    Res(r2.d, "none")))

\* _emitters_ids_chain_iter: the emitter, its _parent, its _parent._parent, ...
RECURSIVE emitters_ids_chain_iter(_, _)
emitters_ids_chain_iter(par, e) ==
    IF par[e] = NoEmitter THEN <<e>>
    ELSE <<e>> \o emitters_ids_chain_iter(par, par[e])

\* (mutant of find_in_chain) the chain is searched from its outermost end.
RECURSIVE find_in_chain_outermost(_, _, _)
find_in_chain_outermost(tbl, chain, k) ==
    IF k > Len(chain) THEN RootRef
    ELSE IF chain[Len(chain) + 1 - k] \in TblEids(tbl) THEN chain[Len(chain) + 1 - k]
    ELSE find_in_chain_outermost(tbl, chain, k + 1)

\* Dispatcher.__call__.find_handler: the eid whose entry is used, or RootRef.
RECURSIVE find_in_chain(_, _, _)
find_in_chain(tbl, chain, k) ==
    IF k > Len(chain) THEN RootRef
    ELSE IF chain[k] \in TblEids(tbl) THEN chain[k]
    ELSE find_in_chain(tbl, chain, k + 1)

find_handler(tbl, par, e) == find_in_chain(tbl, emitters_ids_chain_iter(par, e), 1)

\* Dispatcher.__call__(emitter, event)
Dispatch(d, par, e, ev, O) ==
    LET t == find_handler(d.tbl, par, e) IN
    IF t = RootRef THEN root_handler_wrapper(d, ev, O)
    ELSE handler_wrapper(d, t, e, ev, O)

\* Dispatcher.__exit__, the loop over the live dict: the dict iterator raises
\* RuntimeError as soon as it is advanced after the dict changed size.
RECURSIVE exit_items(_, _, _, _)
exit_items(d, n, k, O) ==
    IF Len(d.tbl) # n THEN Res(d, "RuntimeError")
    ELSE IF k > n THEN Res(d, "none")
    ELSE With(handler_wrapper(d, d.tbl[k].eid, d.tbl[k].eid, "DispatcherClosed", O),
              LAMBDA r :
         IF r.exc = "none" \/ IsJoined(r.exc)        \* contextlib.suppress(Joined)
         THEN exit_items(r.d, n, k + 1, O)
         ELSE r)

\* Dispatcher.__exit__: the table's items, then the root handler.
Dispatcher_exit(d, O, O0) ==
    With(exit_items(d, Len(d.tbl), 1, O), LAMBDA r :
    IF r.exc = "none" THEN root_handler_wrapper(r.d, "DispatcherClosed", O0) ELSE r)

\* (mutant of Dispatcher_fork) the table is not consulted first: the value
\* under the key is replaced and one more finalizer is attached.
Dispatcher_fork_unchecked(d, e, shape, boot) ==
    IF ~boot /\ (\E i \in 1..Len(shape) : shape[i] = "gen") THEN Res(d, "Error")
    ELSE IF e \in TblEids(d.tbl)
    THEN Res([d EXCEPT !.tbl[TblIdx(d.tbl, e)] =
                 [eid |-> e, h |-> normalize_handlers(shape),
                  finalizers |-> @.finalizers + 1, signalled |-> 0,
                  again |-> FALSE]], "none")
    ELSE Res([d EXCEPT !.tbl = Append(@,
                 [eid |-> e, h |-> normalize_handlers(shape), finalizers |-> 1,
                  signalled |-> 0, again |-> FALSE])], "none")

\* Dispatcher.fork(forked, *handlers), forked.child being the emitter e; boot
\* says whether every generator among the handlers reaches its first yield.
Dispatcher_fork(d, e, shape, boot) ==
    IF e \in TblEids(d.tbl) THEN Res(d, "AssertionError")
    ELSE IF ~boot /\ (\E i \in 1..Len(shape) : shape[i] = "gen") THEN Res(d, "Error")
    ELSE Res([d EXCEPT !.tbl = Append(@,
                 [eid |-> e, h |-> normalize_handlers(shape), finalizers |-> 1,
                  signalled |-> 0, again |-> FALSE])], "none")

\* ------------------------------------------------------------------ Emitter
\* What a scope can let escape, what a wrapped function can produce, and how an
\* awaited coroutine or a future can complete.  "BaseException" stands for an
\* exception that is not an Exception (KeyboardInterrupt, SystemExit, ...).
ExcVals == {"none", "Exception", "BaseException"}
WrappedResults == {"value", "Exception", "BaseException", "coroutine", "future"}
AsyncKinds == {"coroutine", "future"}
Completions == {"result", "Exception", "CancelledError"}

\* The emitter code calls the Dispatcher: self._dispatcher(sender, event), the
\* event carrying cause as its __cause__.
Sent(d, sender, ev, cause) ==
    [d EXCEPT !.sent = Append(@, [sender |-> sender, ev |-> ev, cause |-> cause])]

\* (mutant of Emitter_send) the event is taken and send returns; nothing is
\* handed to the Dispatcher during the call.
Emitter_send_deferred(d, par, e, ev, O) == Res(Sent(d, e, ev, "none"), "none")

\* Emitter.send(event)
Emitter_send(d, par, e, ev, O) == Dispatch(Sent(d, e, ev, "none"), par, e, ev, O)

\* _ForkedEmitter.__init__, after _parent is set: the factory's event goes to
\* the Dispatcher with the parent p as sender.
ForkedEmitter_init(d, par, p, O) ==
    Dispatch(Sent(d, p, "Forked", "none"), par, p, "Forked", O)

\* _ForkedEmitter.__exit__(exc_type, exc_val, exc_tb)
ForkedEmitter_exit(d, par, e, exc_val, O) ==
    Dispatch(Sent(d, e, "Joined", exc_val), par, e, "Joined", O)

\* An exception on its way out of a block that has just run r: an exception
\* raised by r replaces it.
Reraise(r, exc) == Res(r.d, IF r.exc = "none" THEN exc ELSE r.exc)

\* _ForkedEmitter.__call__(wrapped), wrapped(self) producing the given result.
\* A coroutine is handed to finalizer(), a future gets on_done as callback.
ForkedEmitter_call(d, par, e, result, O) ==
    IF result = "Exception"
    THEN Reraise(ForkedEmitter_exit(d, par, e, result, O), result)
    ELSE IF result = "BaseException" THEN Res(d, result)
    ELSE IF result \in AsyncKinds THEN Res(d, "none")
    ELSE ForkedEmitter_exit(d, par, e, "none", O)

\* finalizer(), awaited until the coroutine completes with outcome.
finalizer(d, par, e, outcome, O) ==
    Reraise(ForkedEmitter_exit(d, par, e,
                               IF outcome = "Exception" THEN outcome ELSE "none", O),
            IF outcome = "result" THEN "none" ELSE outcome)

\* on_done(f), called by the event loop when the future f is done.  For a
\* future with a result f.exception() is None, and None has no __traceback__.
on_done(d, par, e, outcome, O) ==
    IF outcome = "CancelledError" THEN ForkedEmitter_exit(d, par, e, "none", O)
    ELSE IF outcome = "result" THEN Res(d, "AttributeError")
    ELSE ForkedEmitter_exit(d, par, e, outcome, O)

\* ------------------------------------------------------------ _VoidEmitter
\* The objects an application can hold after calling forked on the void
\* emitter, by their class.
VoidObjects == {"_VoidEmitter", "_GeneratorContextManager"}

\* _VoidEmitter.send(event): pass
VoidEmitter_send(d, ev) == Res(d, "none")

\* _VoidEmitter.forked(factory): the method is a generator function wrapped by
\* contextlib.contextmanager, so the call returns a context manager around a
\* generator that has not run; nothing is sent.
VoidEmitter_forked == "_GeneratorContextManager"

\* _GeneratorContextManager.__enter__: the generator runs to "yield self".
GeneratorContextManager_enter == "_VoidEmitter"

\* bool(obj): _VoidEmitter defines __bool__ as False; Emitter, _ForkedEmitter
\* and the context manager define neither __bool__ nor __len__.
Truth(class) == class # "_VoidEmitter"

\* obj.send(event)
Object_send(d, class, ev) ==
    IF class = "_VoidEmitter" THEN VoidEmitter_send(d, ev)
    ELSE Res(d, "AttributeError")

\* ------------------------------------------------------- emitter lifetime
Children(al, par, p) == {c \in al : par[c] = p}

\* Reference counting: s has lost its last reference.  Its finalizer runs,
\* the object goes away, and its parent loses the reference the child held.
RECURSIVE DestroyChain(_, _, _, _, _, _)
DestroyChain(a, al, par, hd, s, O) ==
    LET hooked == s \in TblEids(a.d.tbl) /\ a.d.tbl[TblIdx(a.d.tbl, s)].finalizers > 0
        al1 == al \ {s}
        par1 == [par EXCEPT ![s] = NoEmitter]
        p == par[s]
    IN  With(IF hooked THEN on_deallocated(a.d, s, O) ELSE Res(a.d, "none"), LAMBDA q :
        With([d |-> q.d,
              dropped |-> IF q.exc = "none" THEN a.dropped ELSE a.dropped \cup {q.exc}],
             LAMBDA a1 :
        IF p # NoEmitter /\ p \notin hd /\ Children(al1, par1, p) = {}
        THEN DestroyChain(a1, al1, par1, hd, p, O)
        ELSE [a |-> a1, alive |-> al1, parent |-> par1]))

\* ------------------------------------------------------------------ oracles
\* User code is nondeterministic: an oracle O gives, for each member of the
\* handler resumed in a step, what its function or generator does.
DefaultReaction == [send |-> "return", throw |-> "propagate"]

\* What a member can do when it is sent an event; thrown says whether the
\* event is thrown in afterwards if the handler is not finished by it.
Reactions(m, thrown) ==
    IF m.done THEN {DefaultReaction}
    ELSE IF m.kind = "func"
    THEN {[send |-> x, throw |-> "propagate"] : x \in FuncOutcomes}
    ELSE {[send |-> "yield", throw |-> y] :
              y \in IF thrown THEN GenThrowOutcomes ELSE {"propagate"}}
         \cup {[send |-> x, throw |-> "propagate"] : x \in GenSendOutcomes \ {"yield"}}

\* All sequences whose i-th element is drawn from the set sets[i].
RECURSIVE Choices(_)
Choices(sets) ==
    IF sets = <<>> THEN {<<>>}
    ELSE {Append(O, x) : O \in Choices(SubSeq(sets, 1, Len(sets) - 1)),
                         x \in sets[Len(sets)]}

HandlerOracles(h, thrown) == Choices([i \in 1..Len(h) |-> Reactions(h[i], thrown)])

NoOracle == [i \in 1..MaxMembers |-> DefaultReaction]

\* Reactions to a signal thrown in by a finalizer: only generators choose.
ThrowReactions(tbl, i) ==
    IF \E k \in 1..Len(tbl) : /\ tbl[k].finalizers > 0
                              /\ i <= Len(tbl[k].h)
                              /\ tbl[k].h[i].kind = "gen"
                              /\ ~tbl[k].h[i].done
    THEN {[send |-> "return", throw |-> y] : y \in GenThrowOutcomes}
    ELSE {DefaultReaction}

ThrowOracles(tbl) == Choices([i \in 1..MaxMembers |-> ThrowReactions(tbl, i)])

\* A caller sends n events in a row through e, the k-th one tagged k, from the
\* k-th on; an exception that leaves a send ends the caller.  The outcomes
\* for every way the handlers can react.
RECURSIVE Sends(_, _, _, _, _)
Sends(d, par, e, n, k) ==
    IF k > n THEN {Res(d, "none")}
    ELSE UNION {IF r.exc # "none" THEN {r} ELSE Sends(r.d, par, e, n, k + 1) :
                r \in {Emitter_send(d, par, e, ToString(k), O) :
                          O \in HandlerOracles(H(d, find_handler(d.tbl, par, e)),
                                               FALSE)}}

\* ------------------------------------------ handlers that use the library
\* What the function or generator of a handler can do with the library while
\* it handles an event: send an event through an emitter, or let go of the
\* application's reference to a forked emitter.
BodyActs == {"send", "release"}

\* (mutant of Pinned) nothing keeps an emitter alive during a delivery.
Pinned_none(par, e) == {}

\* The emitters that cannot be destroyed while an event sent through e is
\* being delivered: the frame of send refers to e, and every forked emitter
\* to its _parent.
Pinned(par, e) ==
    {emitters_ids_chain_iter(par, e)[k] : k \in 1..Len(emitters_ids_chain_iter(par, e))}

\* The call the body makes, in the world w = [d, exc, alive, parent, held,
\* dropped]: x.send("y"), or the last application reference to x goes away
\* and x is destroyed at once unless something else refers to it.
BodyCall(w, pinned, act, x, Oi) ==
    IF act = "send"
    THEN With(Emitter_send(w.d, w.parent, x, "y", Oi), LAMBDA r :
         [w EXCEPT !.d = r.d, !.exc = r.exc])
    ELSE IF x \in pinned \/ Children(w.alive, w.parent, x) # {}
    THEN [w EXCEPT !.held = @ \ {x}]
    ELSE With(DestroyChain([d |-> w.d, dropped |-> {}], w.alive, w.parent,
                           (w.held \ {x}) \cup pinned, x, Oi), LAMBDA g :
         [d |-> g.a.d, exc |-> "none", alive |-> g.alive, parent |-> g.parent,
          held |-> w.held \ {x}, dropped |-> g.a.dropped])

\* The exception that leaves send of a normalized handler of the given kind
\* whose body got bexc from its library call and then did o.send: a function's
\* errors are swallowed, a generator's make HandlerFailed.
Ends(kind, o, bexc) ==
    IF kind = "func"
    THEN IF bexc = "none" /\ o.send = "done" THEN "HandlerDone" ELSE "none"
    ELSE IF bexc # "none" THEN "HandlerFailed"
    ELSE CASE o.send = "yield" -> "none"
           [] o.send \in {"return", "done"} -> "HandlerDone"
           [] OTHER -> "HandlerFailed"

\* The handler object outlives its table entry while a frame refers to it.
SetDoneIfKept(d, ref) == IF ref \in TblEids(d.tbl) THEN SetDone(d, ref, 1) ELSE d

\* send of the single normalized handler ref, its body making the call.
RunningSend(w, ref, ev, o, pinned, act, x, Oi) ==
    IF H(w.d, ref)[1].done THEN [w EXCEPT !.exc = "AssertionError"]
    ELSE With(H(w.d, ref)[1].kind, LAMBDA kind :
         With(BodyCall([w EXCEPT !.d = [Note(w.d, ref, 1, "send", ev, o.send)
                                           EXCEPT !.running = {ref}]],
                       pinned, act, x, Oi), LAMBDA q :
         [q EXCEPT !.d = IF Ends(kind, o, q.exc) = "none"
                         THEN [q.d EXCEPT !.running = {}]
                         ELSE SetDoneIfKept([q.d EXCEPT !.running = {}], ref),
                   !.exc = Ends(kind, o, q.exc)]))

\* e.send(ev) reaching a registration whose handler makes the call while it
\* handles ev; the references of the frames go away when send has returned.
ReentrantSend(w, e, ev, o, act, x, Oi) ==
    LET t == find_handler(w.d.tbl, w.parent, e)
        pinned == Pinned(w.parent, e)
    IN  With(RunningSend([w EXCEPT !.d = Routed(Sent(w.d, e, ev, "none"), t)],
                         t, ev, o, pinned, act, x, Oi), LAMBDA q :
        With(handler_wrapper_from(Res(q.d, q.exc), t, e, ev, NoOracle), LAMBDA r :
        IF x \in q.alive /\ x \notin q.held /\ Children(q.alive, q.parent, x) = {}
        THEN With(DestroyChain([d |-> r.d, dropped |-> q.dropped], q.alive, q.parent,
                               q.held, x, Oi), LAMBDA g :
             [d |-> g.a.d, exc |-> r.exc, alive |-> g.alive, parent |-> g.parent,
              held |-> q.held, dropped |-> g.a.dropped])
        ELSE [q EXCEPT !.d = r.d, !.exc = r.exc]))

\* ------------------------------------------------------------ wait (utils)
\* Event classes; EventX1 is a subclass of EventX.  An event is an instance:
\* its class and which object it is (the place it has among the events fed).
EventTypes == {"EventX", "EventX1", "EventY", "EventZ"}
Bases(t) == IF t = "EventX1" THEN {"EventX1", "EventX"} ELSE {t}
Events == [type : EventTypes, id : 1..MaxLen]
NoEvent == [type |-> "none", id |-> 0]

\* A condition: one of the functions _any and _never, or a collection of types.
Conds == {[fn |-> f, types |-> {}] : f \in {"_any", "_never"}}
         \cup {[fn |-> "none", types |-> T] : T \in SUBSET EventTypes}

\* A filter f is given by the types of the events it hands back unchanged;
\* for any other event it returns something else (None).  _passthrough hands
\* back every event.
passthrough == EventTypes
Throughs == {passthrough, {}} \cup {EventTypes \ {t} : t \in EventTypes}
Through(f, event) == IF event.type \in f THEN event ELSE NoEvent

\* _cond_matches(cond, event)
cond_matches(cond, event) ==
    \/ cond.fn # "none" /\ cond.fn = "_any"
    \/ cond.fn = "none" /\ Bases(event.type) \cap cond.types # {}

\* wait(until, cancel_if) and wait_through(f)(until, cancel_if): _wait is
\* called, which makes a generator that has not started.
wait(until, cancel_if, through) ==
    [until |-> until, cancel_if |-> cancel_if, through |-> through,
     state |-> "created", outcome |-> "none", value |-> NoEvent, received |-> <<>>,
     late |-> 0]

NoWaiter == [wait({}, {}, {}) EXCEPT !.state = "absent"]

\* (mutant of Rejected) the filter is not consulted.
Rejected_never(w, event) == FALSE

\* through(event) != event
Rejected(w, event) == Through(w.through, event) # event

\* (mutant of wait_step) until is consulted before cancel_if.
wait_step_until_first(w, event) ==
    With([w EXCEPT !.received = Append(@, event)], LAMBDA w1 :
    IF Rejected(w1, event) THEN w1
    ELSE IF cond_matches(w1.until, event)
    THEN [w1 EXCEPT !.state = "done", !.outcome = "returned", !.value = event]
    ELSE IF cond_matches(w1.cancel_if, event)
    THEN [w1 EXCEPT !.state = "done", !.outcome = "WaitCancelled", !.value = event]
    ELSE w1)

\* (mutant of wait_step) cancel_if is not consulted.
wait_step_uncancelled(w, event) ==
    With([w EXCEPT !.received = Append(@, event)], LAMBDA w1 :
    IF Rejected(w1, event) THEN w1
    ELSE IF cond_matches(w1.until, event)
    THEN [w1 EXCEPT !.state = "done", !.outcome = "returned", !.value = event]
    ELSE w1)

\* One turn of the loop of _wait: the generator is resumed with event, and
\* runs until it yields again, raises or returns.
wait_step(w, event) ==
    With([w EXCEPT !.received = Append(@, event)], LAMBDA w1 :
    IF Rejected(w1, event) THEN w1
    ELSE IF cond_matches(w1.cancel_if, event)
    THEN [w1 EXCEPT !.state = "done", !.outcome = "WaitCancelled", !.value = event]
    ELSE IF cond_matches(w1.until, event)
    THEN [w1 EXCEPT !.state = "done", !.outcome = "returned", !.value = event]
    ELSE w1)

\* ---------------------------------------------------------------- actions
D == [tbl |-> eid_to_handler, root |-> root_handler, calls |-> <<>>,
      routed |-> <<>>, sent |-> <<>>, running |-> {}]

Commit(d) ==
    /\ eid_to_handler' = d.tbl
    /\ root_handler' = d.root

\* The members of the handlers in the table and of the root handler that are
\* not done: member m of the of members of the handler ref.
LiveOf(ref, h) ==
    {[ref |-> ref, m |-> i, of |-> Len(h)] : i \in {j \in 1..Len(h) : ~h[j].done}}

LiveMembers(tbl, root) ==
    LiveOf(RootRef, root) \cup UNION {LiveOf(tbl[k].eid, tbl[k].h) : k \in 1..Len(tbl)}

\* History: the operation just performed, the emitter it was called on, the
\* exception its caller saw, the callables the Dispatcher invoked and the
\* handler calls they made, the exceptions the finalizer machinery dropped,
\* the emitters destroyed, the eids registered and the members not done before
\* the operation, whether
\* it left the table and every handler as they were, and whether the operation
\* before it was a close that completed.
ObserveWith(op, e, ev, arg, r, dropped, died) ==
    last' = [op |-> op, e |-> e, ev |-> ev, arg |-> arg, exc |-> r.exc,
             calls |-> r.d.calls, routed |-> r.d.routed, sent |-> r.d.sent,
             dropped |-> dropped, died |-> died,
             before |-> TblEids(eid_to_handler),
             live |-> LiveMembers(eid_to_handler, root_handler),
             same |-> (r.d.tbl = eid_to_handler /\ r.d.root = root_handler),
             afterClose |-> (last.op = "exit" /\ last.exc = "none"),
             again |-> {eid_to_handler[k].eid :
                           k \in {j \in 1..Len(eid_to_handler) : eid_to_handler[j].again}}]

Observe(op, e, ev, r, dropped, died) == ObserveWith(op, e, ev, "none", r, dropped, died)

Target(e) == find_handler(eid_to_handler, parent, e)

Members(tbl) ==
    LET RECURSIVE Sum(_)
        Sum(k) == IF k = 0 THEN 0 ELSE Len(tbl[k].h) + Sum(k - 1)
    IN  Sum(Len(tbl))

NoOperation ==
    [op |-> "init", e |-> NoEmitter, ev |-> "none", arg |-> "none", exc |-> "none",
     calls |-> <<>>, routed |-> <<>>, sent |-> <<>>, dropped |-> {}, died |-> {},
     before |-> {}, live |-> {}, same |-> TRUE, afterClose |-> FALSE, again |-> {}]

InitDispatch(rootShapes) ==
    /\ alive = {1}
    /\ parent = [s \in AllSlots |-> NoEmitter]
    /\ held = {1}
    /\ eid_to_handler = <<>>
    /\ pending = [x \in AllSlots \X AsyncKinds |-> 0]
    /\ obtained = "none"
    /\ \E shape \in rootShapes : root_handler = normalize_handlers(shape)
    /\ last = NoOperation

InitWith(rootShapes) == InitDispatch(rootShapes) /\ waiter = NoWaiter

\* Emitter.send(event)
Send(e, ev) ==
    /\ e \in alive
    /\ \E O \in HandlerOracles(H(D, Target(e)), FALSE) :
       \E r \in {Emitter_send(D, parent, e, ev, O)} :
          /\ Commit(r.d)
          /\ Observe("send", e, ev, r, {}, {})
    /\ UNCHANGED <<alive, parent, held, pending, waiter, obtained>>

\* _ForkedEmitter.__exit__: the scope of a forked emitter is closed.
ExitScope(e) ==
    /\ e \in alive
    /\ parent[e] # NoEmitter
    /\ \E O \in HandlerOracles(H(D, Target(e)), Target(e) = e) :
       \E r \in {ForkedEmitter_exit(D, parent, e, "none", O)} :
          /\ Commit(r.d)
          /\ Observe("join", e, "Joined", r, {}, {})
    /\ UNCHANGED <<alive, parent, held, pending, waiter, obtained>>

\* e.send(1); e.send(2); ...: n consecutive sends of one caller.
Burst(e, n) ==
    /\ e \in alive
    /\ \E r \in Sends(D, parent, e, n, 1) :
          /\ Commit(r.d)
          /\ Observe("burst", e, "none", r, {}, {})
    /\ UNCHANGED <<alive, parent, held, pending, waiter, obtained>>

\* with e: ..., the block letting exc_val escape ("none": it returns).
WithBlock(e, exc_val) ==
    /\ e \in alive
    /\ parent[e] # NoEmitter
    /\ \E O \in HandlerOracles(H(D, Target(e)), Target(e) = e) :
       \E r \in {Reraise(ForkedEmitter_exit(D, parent, e, exc_val, O), exc_val)} :
          /\ Commit(r.d)
          /\ ObserveWith("with", e, "Joined", exc_val, r, {}, {})
    /\ UNCHANGED <<alive, parent, held, pending, waiter, obtained>>

\* e(wrapped), wrapped(e) producing result.
CallScoped(e, result) ==
    /\ e \in alive
    /\ parent[e] # NoEmitter
    /\ result \in AsyncKinds => pending[<<e, result>>] < MaxPending
    /\ \E O \in HandlerOracles(H(D, Target(e)), Target(e) = e) :
       \E r \in {ForkedEmitter_call(D, parent, e, result, O)} :
          /\ Commit(r.d)
          /\ ObserveWith("call", e, "Joined", result, r, {}, {})
    /\ pending' = IF result \in AsyncKinds
                  THEN [pending EXCEPT ![<<e, result>>] = @ + 1] ELSE pending
    /\ UNCHANGED <<alive, parent, held, waiter, obtained>>

\* A coroutine returned by e(wrapped) has been awaited to its end, or the event
\* loop runs the callback of a future that is done: completion with outcome.
Complete(e, kind, outcome) ==
    /\ pending[<<e, kind>>] > 0
    /\ \E O \in HandlerOracles(H(D, Target(e)), Target(e) = e) :
       \E r \in {IF kind = "coroutine" THEN finalizer(D, parent, e, outcome, O)
                  ELSE on_done(D, parent, e, outcome, O)} :
          /\ Commit(r.d)
          /\ ObserveWith("complete", e, kind, outcome, r, {}, {})
    /\ pending' = [pending EXCEPT ![<<e, kind>>] = @ - 1]
    /\ UNCHANGED <<alive, parent, held, waiter, obtained>>

\* void_emitter.send(event), or x.send(event) on the object x obtained from
\* the void emitter.
VoidSend(on, ev) ==
    /\ on \in VoidObjects
    /\ on = "_VoidEmitter" \/ on = obtained
    /\ \E r \in {Object_send(D, on, ev)} :
          /\ Commit(r.d)
          /\ ObserveWith("void_send", NoEmitter, ev, on, r, {}, {})
    /\ UNCHANGED <<alive, parent, held, pending, waiter, obtained>>

\* x = void_emitter.forked(factory)
VoidForked ==
    /\ obtained' = VoidEmitter_forked
    /\ Commit(D)
    /\ ObserveWith("void_forked", NoEmitter, "none", "_VoidEmitter", Res(D, "none"),
                   {}, {})
    /\ UNCHANGED <<alive, parent, held, pending, waiter>>

\* with x as c: the application goes on with c.
VoidEnter ==
    /\ obtained = "_GeneratorContextManager"
    /\ obtained' = GeneratorContextManager_enter
    /\ Commit(D)
    /\ ObserveWith("void_enter", NoEmitter, "none", obtained, Res(D, "none"), {}, {})
    /\ UNCHANGED <<alive, parent, held, pending, waiter>>

\* next(gen), as done by the "yield from" that drives the wait: the generator
\* runs to its first yield.
Start ==
    /\ waiter.state = "created"
    /\ waiter' = [waiter EXCEPT !.state = "suspended"]
    /\ UNCHANGED <<alive, parent, held, eid_to_handler, root_handler, pending, obtained,
                   last>>

\* gen.send(event), event being a new instance of the class t.  A generator
\* that has finished raises StopIteration and takes nothing.
Feed(t) ==
    /\ waiter.state \in {"suspended", "done"}
    /\ Len(waiter.received) + waiter.late < MaxLen
    /\ waiter' = IF waiter.state = "suspended"
                 THEN wait_step(waiter, [type |-> t,
                                         id |-> Len(waiter.received) + 1])
                 ELSE [waiter EXCEPT !.late = @ + 1]
    /\ UNCHANGED <<alive, parent, held, eid_to_handler, root_handler, pending, obtained,
                   last>>

\* Emitter.send(event) reaching a registered single handler that, while it
\* handles the event, sends "y" through x or releases the reference to x.
Reenter(e, ev, act, x) ==
    /\ e \in alive
    /\ x \in alive
    /\ Target(e) # RootRef
    /\ Len(H(D, Target(e))) = 1
    /\ act = "release" => x \in held /\ parent[x] # NoEmitter
    /\ \E o \in Reactions(H(D, Target(e))[1], FALSE) :
       \E Oi \in (IF act = "send" THEN HandlerOracles(H(D, Target(x)), FALSE)
                  ELSE ThrowOracles(eid_to_handler)) :
       \E q \in {ReentrantSend([d |-> D, exc |-> "none", alive |-> alive,
                                parent |-> parent, held |-> held, dropped |-> {}],
                               e, ev, o, act, x, Oi)} :
          /\ Commit(q.d)
          /\ alive' = q.alive
          /\ parent' = q.parent
          /\ held' = q.held
          /\ ObserveWith("reenter", e, ev, [act |-> act, x |-> x], Res(q.d, q.exc),
                         q.dropped, alive \ q.alive)
    /\ UNCHANGED <<pending, waiter, obtained>>

\* Addresses a new emitter object can get among slots: the lowest free one,
\* or a freed one that the table still has an entry for.
NewIds(slots) ==
    LET free == slots \ alive IN
    {c \in free : c \in TblEids(eid_to_handler)
                  \/ \A q \in free \ TblEids(eid_to_handler) : c <= q}

\* Emitter.forked(factory), called on an emitter p among forkers: the child c
\* is built at an address among ids and announced through p.
Forked(p, ids, forkers) ==
    /\ p \in alive \cap forkers
    /\ \E c \in NewIds(ids), O \in HandlerOracles(H(D, Target(p)), FALSE) :
       \E r \in {ForkedEmitter_init(D, parent, p, O)} :
          /\ Commit(r.d)
          /\ Observe("forked", p, "Forked", r, {}, {})
          /\ IF r.exc = "none"
             THEN /\ alive' = alive \cup {c}
                  /\ parent' = [parent EXCEPT ![c] = p]
                  /\ held' = held \cup {c}
             ELSE UNCHANGED <<alive, parent, held>>
    /\ UNCHANGED <<pending, waiter, obtained>>

\* Dispatcher.fork(forked, *handlers), forked being the Forked event that
\* announced the forked emitter e.
Fork(e, shape, boot, cap) ==
    /\ e \in alive
    /\ parent[e] # NoEmitter
    /\ Members(eid_to_handler) + Len(shape) <= cap
    /\ \E r \in {Dispatcher_fork(D, e, shape, boot)} :
          /\ Commit(r.d)
          /\ Observe("fork", e, "none", r, {}, {})
    /\ UNCHANGED <<alive, parent, held, pending, waiter, obtained>>

\* The registration of e ended in the operation just performed (its handler
\* completed, failed or was terminated) while e is alive.
Ended(e) ==
    /\ last.op \in {"send", "join"}
    /\ e \in last.before
    /\ \E k \in 1..Len(last.calls) :
          /\ last.calls[k].ref = e
          /\ \/ last.calls[k].via = "throw"
             \/ last.calls[k].out \in (IF last.calls[k].kind = "func"
                                       THEN {"done"} ELSE {"return", "done", "raise"})

\* Dispatcher.fork(Forked(e), handler) once more, after the registration of e
\* has ended; the entry remembers that it is not the first one for e.
Refork(e, shape, cap) ==
    /\ e \in alive
    /\ parent[e] # NoEmitter
    /\ Ended(e)
    /\ Members(eid_to_handler) + Len(shape) <= cap
    /\ \E r \in {Dispatcher_fork(D, e, shape, TRUE)} :
          /\ Commit(IF r.exc = "none"
                    THEN [r.d EXCEPT !.tbl[Len(r.d.tbl)].again = TRUE] ELSE r.d)
          /\ Observe("refork", e, "none", r, {}, {})
    /\ UNCHANGED <<alive, parent, held, pending, waiter, obtained>>

\* The application drops its last reference to the forked emitter e.
Drop(e) ==
    /\ e \in held
    /\ parent[e] # NoEmitter
    /\ held' = held \ {e}
    /\ UNCHANGED <<pending, waiter, obtained>>
    /\ IF Children(alive, parent, e) # {}
       THEN /\ Observe("drop", e, "none", Res(D, "none"), {}, {})
            /\ UNCHANGED <<alive, parent, eid_to_handler, root_handler>>
       ELSE \E O \in ThrowOracles(eid_to_handler) :
            \E g \in {DestroyChain([d |-> D, dropped |-> {}], alive, parent,
                                   held \ {e}, e, O)} :
              /\ alive' = g.alive
              /\ parent' = g.parent
              /\ Commit(g.a.d)
              /\ Observe("drop", e, "none", Res(g.a.d, "none"), g.a.dropped,
                         alive \ g.alive)

\* Dispatcher.__exit__
DispatcherExit ==
    /\ \E O \in (IF eid_to_handler = <<>> THEN {NoOracle}
                 ELSE HandlerOracles(eid_to_handler[1].h, TRUE)) :
       \E O0 \in (IF exit_items(D, Len(eid_to_handler), 1, O).exc = "none"
                  THEN HandlerOracles(root_handler, TRUE) ELSE {NoOracle}) :
       \E r \in {Dispatcher_exit(D, O, O0)} :
          /\ Commit(r.d)
          /\ Observe("exit", NoEmitter, "DispatcherClosed", r, {}, {})
    /\ UNCHANGED <<alive, parent, held, pending, waiter, obtained>>

Leaves == {e \in alive : Children(alive, parent, e) = {}}

\* The dispatch engine with every kind of handler, on a small emitter tree.
Init == InitWith(SingleShapes)
Next ==
    \/ \E e \in Slots, ev \in PlainEvents : Send(e, ev)
    \/ \E e \in Slots : ExitScope(e)
    \/ \E p \in Slots : Forked(p, Slots, Slots)
    \/ \E e \in Slots, shape \in HandlerShapes, boot \in BOOLEAN :
          Fork(e, shape, boot, MaxHandlers)
    \/ \E e \in Slots : Drop(e)
    \/ DispatcherExit
Spec == Init /\ [][Next]_vars

\* A chain root -> A -> B -> C can be built; handlers are single functions.
InitChain == InitWith({<<"func">>})
NextChain ==
    \/ \E e \in ChainIds, ev \in PlainEvents : Send(e, ev)
    \/ \E e \in ChainIds : ExitScope(e)
    \/ \E p \in ChainIds : Forked(p, ChainIds, Leaves)
    \/ \E e \in ChainIds, boot \in BOOLEAN : Fork(e, <<"func">>, boot, ChainSlots - 1)
    \/ \E e \in ChainIds : Drop(e)
    \/ DispatcherExit
SpecChain == InitChain /\ [][NextChain]_vars

\* Every kind of root handler, single handlers registered.
InitRoot == InitWith(HandlerShapes)
NextRoot ==
    \/ \E e \in Slots, ev \in PlainEvents : Send(e, ev)
    \/ \E e \in Slots : ExitScope(e)
    \/ \E p \in Slots : Forked(p, Slots, Slots)
    \/ \E e \in Slots, shape \in SingleShapes, boot \in BOOLEAN :
          Fork(e, shape, boot, MaxHandlers)
    \/ \E e \in Slots : Drop(e)
    \/ DispatcherExit
SpecRoot == InitRoot /\ [][NextRoot]_vars

\* Compound handlers registered, a function as the root handler.
CompoundShapes == HandlerShapes \ SingleShapes
InitMulti == InitWith({<<"func">>})
NextMulti ==
    \/ \E e \in Slots, ev \in PlainEvents : Send(e, ev)
    \/ \E e \in Slots : ExitScope(e)
    \/ \E p \in Slots : Forked(p, Slots, Slots)
    \/ \E e \in Slots, shape \in CompoundShapes, boot \in BOOLEAN :
          Fork(e, shape, boot, MaxHandlers)
    \/ \E e \in Slots : Drop(e)
    \/ DispatcherExit
SpecMulti == InitMulti /\ [][NextMulti]_vars

\* Scoped uses of forked emitters, single handlers registered.
InitScope == InitWith({<<"func">>})
NextScope ==
    \/ \E p \in Slots : Forked(p, Slots, Slots)
    \/ \E e \in Slots, shape \in SingleShapes, boot \in BOOLEAN :
          Fork(e, shape, boot, MaxHandlers)
    \/ \E e \in Slots, exc_val \in ExcVals : WithBlock(e, exc_val)
    \/ \E e \in Slots, result \in WrappedResults : CallScoped(e, result)
    \/ \E e \in Slots, kind \in AsyncKinds, outcome \in Completions :
          Complete(e, kind, outcome)
SpecScope == InitScope /\ [][NextScope]_vars

\* Consecutive sends through the emitters of a chain, single handlers.
InitOrder == InitWith(SingleShapes)
NextOrder ==
    \/ \E p \in Slots : Forked(p, Slots, Leaves)
    \/ \E e \in Slots, shape \in SingleShapes, boot \in BOOLEAN :
          Fork(e, shape, boot, MaxHandlers)
    \/ \E e \in Slots, n \in 1..MaxBurst : Burst(e, n)
SpecOrder == InitOrder /\ [][NextOrder]_vars

\* A wait generator with any conditions and filter, fed any events.
InitWait ==
    /\ InitDispatch({<<"func">>})
    /\ \E until \in Conds, cancel_if \in Conds, through \in Throughs :
          waiter = wait(until, cancel_if, through)
NextWait ==
    \/ Start
    \/ \E t \in EventTypes : Feed(t)
SpecWait == InitWait /\ [][NextWait]_vars

\* The void emitter next to a Dispatcher with registrations.
InitVoid == InitWith({<<"func">>})
NextVoid ==
    \/ \E e \in Slots, ev \in PlainEvents : Send(e, ev)
    \/ \E p \in Slots : Forked(p, Slots, Slots)
    \/ \E e \in Slots, shape \in SingleShapes, boot \in BOOLEAN :
          Fork(e, shape, boot, MaxHandlers)
    \/ \E on \in VoidObjects, ev \in PlainEvents : VoidSend(on, ev)
    \/ VoidForked
    \/ VoidEnter
SpecVoid == InitVoid /\ [][NextVoid]_vars

\* Handlers that send and release emitters while they handle an event, on a
\* chain of forked emitters a = root.forked(..), b = a.forked(..), ... whose
\* announcements the root handler has handled.
InitNest ==
    /\ alive = NestIds
    /\ parent = [s \in AllSlots |-> IF s \in NestIds \ {1} THEN s - 1 ELSE NoEmitter]
    /\ held = NestIds
    /\ eid_to_handler = <<>>
    /\ root_handler = normalize_handlers(<<"func">>)
    /\ pending = [x \in AllSlots \X AsyncKinds |-> 0]
    /\ obtained = "none"
    /\ waiter = NoWaiter
    /\ last = NoOperation
NextNest ==
    \/ \E e \in NestIds, shape \in SingleShapes, boot \in BOOLEAN :
          Fork(e, shape, boot, MaxHandlers)
    \/ \E e \in NestIds, act \in BodyActs, x \in NestIds : Reenter(e, "x", act, x)
    \/ \E e \in NestIds : Drop(e)
    \/ DispatcherExit
SpecNest == InitNest /\ [][NextNest]_vars

\* Handlers that release emitters while they handle an event, on the same
\* chain.
InitPin == InitNest
NextPin ==
    \/ \E e \in NestIds, shape \in SingleShapes, boot \in BOOLEAN :
          Fork(e, shape, boot, MaxHandlers)
    \/ \E e \in NestIds, x \in NestIds : Reenter(e, "x", "release", x)
    \/ \E e \in NestIds : Drop(e)
SpecPin == InitPin /\ [][NextPin]_vars

\* Scopes closed, events sent and emitters registered again on the same
\* chain, single handlers.
InitJoin == InitNest
NextJoin ==
    \/ \E e \in NestIds, shape \in SingleShapes, boot \in BOOLEAN :
          Fork(e, shape, boot, MaxHandlers)
    \/ \E e \in NestIds, ev \in PlainEvents : Send(e, ev)
    \/ \E e \in NestIds : ExitScope(e)
    \/ \E e \in NestIds, shape \in SingleShapes : Refork(e, shape, MaxHandlers)
    \/ \E e \in NestIds : Drop(e)
SpecJoin == InitJoin /\ [][NextJoin]_vars

\* ================================================================ claims
SendLike == last.op \in {"send", "join", "forked"}

\* The n-th ancestor of e (e itself for n = 0), NoEmitter above the root.
RECURSIVE Up(_, _)
Up(e, n) ==
    IF e = NoEmitter \/ n = 0 THEN e ELSE Up(parent[e], n - 1)

Depths == 0..Cardinality(AllSlots)

\* The registered emitter closest to e on the way up, RootRef if there is none.
Nearest(reg, e) ==
    LET hits == {n \in Depths : Up(e, n) \in reg} IN
    IF hits = {} THEN RootRef
    ELSE Up(e, CHOOSE n \in hits : \A q \in hits : n <= q)

\* C1: routing order.  An event sent through an emitter is handed to the
\* handler registered for the nearest registered emitter walking up from the
\* sender (the sender itself first), and to the root handler when no emitter
\* of the chain is registered; the Dispatcher invokes exactly that one handler
\* and calls no member of any other handler.
C1_RoutingOrder ==
    SendLike =>
        /\ last.routed = <<Nearest(last.before, last.e)>>
        /\ \A k \in 1..Len(last.calls) :
              last.calls[k].ref = Nearest(last.before, last.e)

\* An event sent through C of a chain root -> A -> B -> C, with A and B
\* registered and C not, went to B's handler.
C1_Witness ==
    /\ last.op = "send"
    /\ Up(last.e, 3) # NoEmitter
    /\ last.e \notin last.before
    /\ Up(last.e, 1) \in last.before
    /\ Up(last.e, 2) \in last.before
    /\ last.routed = <<Up(last.e, 1)>>
    /\ Len(last.calls) = 1

\* ---------------------------------------------------------------- C2
\* C2: at-most-one termination.  Once a termination signal (Joined of its own
\* scope, EmitterDeallocated, DispatcherClosed) has reached the handler of a
\* registration, the registration is absent from the table; so no registration
\* in the table has had one, and none can get a second one.
C2_AtMostOneTermination ==
    \A k \in 1..Len(eid_to_handler) : eid_to_handler[k].signalled = 0

\* ---------------------------------------------------------------- C3
OwnJoin == last.op = "join" /\ last.e \in last.before

\* The member resumed by the call c is not finished by it.
Survives(c) ==
    \/ c.kind = "func" /\ c.out \in {"return", "raise"}
    \/ c.kind = "gen" /\ c.out = "yield"

\* C3: forced termination on own-scope Joined.  When the scope of a registered
\* emitter is closed, its handler gets the Joined through send first; a handler
\* that is not finished by that gets the same Joined thrown in; and the
\* registration is absent from the table when the call returns.
C3_ForcedTermination ==
    OwnJoin =>
        /\ last.e \notin TblEids(eid_to_handler)
        /\ last.calls # <<>>
        /\ \A k \in 1..Len(last.calls) :
              /\ last.calls[k].ref = last.e
              /\ last.calls[k].ev = "Joined"
              /\ last.calls[k].via = "throw" =>
                    \E j \in 1..(k - 1) : /\ last.calls[j].via = "send"
                                          /\ last.calls[j].m = last.calls[k].m
              /\ (last.calls[k].via = "send" /\ Survives(last.calls[k])) =>
                    \E j \in (k + 1)..Len(last.calls) :
                        /\ last.calls[j].via = "throw"
                        /\ last.calls[j].m = last.calls[k].m

\* ---------------------------------------------------------------- C4
\* C4: fork-then-drop without close.  When emitters are destroyed, the handler
\* of each destroyed emitter that was registered gets EmitterDeallocated thrown
\* in, no member more than once, and its registration is gone afterwards;
\* nobody else gets an EmitterDeallocated.
C4_ForkThenDrop ==
    last.op = "drop" =>
        /\ \A s \in last.died \cap last.before :
              /\ \E k \in 1..Len(last.calls) :
                    /\ last.calls[k].ref = s
                    /\ last.calls[k].via = "throw"
                    /\ last.calls[k].ev = "EmitterDeallocated"
              /\ \A j, k \in 1..Len(last.calls) :
                    (/\ last.calls[j].ref = s
                     /\ last.calls[k].ref = s
                     /\ last.calls[j].m = last.calls[k].m) => j = k
              /\ s \notin TblEids(eid_to_handler)
        /\ \A k \in 1..Len(last.calls) :
              last.calls[k].ref \in last.died \cap last.before

\* ---------------------------------------------------------------- C5
Count(seq, x) == Cardinality({k \in 1..Len(seq) : seq[k] = x})

\* C5: shutdown delivery.  Closing the Dispatcher does not raise, and hands
\* DispatcherClosed exactly once to the handler of every registration that was
\* in the table and exactly once to the root handler.
C5_ShutdownDelivery ==
    last.op = "exit" =>
        /\ last.exc = "none"
        /\ \A t \in last.before \cup {RootRef} : Count(last.routed, t) = 1

\* ---------------------------------------------------------------- C6
\* C6: after the Dispatcher has been closed the registration table is empty.
C6_TableEmptyAfterClose ==
    last.op = "exit" => eid_to_handler = <<>>

\* ---------------------------------------------------------------- C7
SecondClose == last.op = "exit" /\ last.afterClose

\* C7: shutdown idempotence.  A close that follows a completed close raises
\* nothing, finds the table empty, calls no handler other than the root
\* handler, and leaves the table empty.
C7_ShutdownIdempotence ==
    SecondClose =>
        /\ last.exc = "none"
        /\ last.before = {}
        /\ \A k \in 1..Len(last.routed) : last.routed[k] = RootRef
        /\ \A k \in 1..Len(last.calls) : last.calls[k].ref = RootRef
        /\ eid_to_handler = <<>>

\* A second close was made while a forked emitter was alive; the root handler,
\* finished by the first close, was invoked again and nothing was raised.
C7_Witness ==
    /\ SecondClose
    /\ last.exc = "none"
    /\ last.routed = <<RootRef>>
    /\ \A i \in 1..Len(root_handler) : root_handler[i].done
    /\ Cardinality(alive) > 1

\* ---------------------------------------------------------------- C8
\* C8: senders never observe handler failures.  Emitter.send returns normally
\* whatever handler the event is routed to and whatever state it is in.
C8_SendersNeverObserve ==
    last.op = "send" => last.exc = "none"

\* ---------------------------------------------------------------- C9
AtMostOnePerEmitter ==
    /\ \A j, k \in 1..Len(eid_to_handler) :
          eid_to_handler[j].eid = eid_to_handler[k].eid => j = k
    /\ \A k \in 1..Len(eid_to_handler) : eid_to_handler[k].finalizers <= 1

\* C9: at most one registration per emitter identity.  The table never holds
\* two entries for one identity nor an entry with two finalizers, and a
\* Dispatcher.fork for an identity that is in the table raises an error and
\* changes neither the table nor any handler.
C9_OneRegistrationPerEmitter ==
    /\ AtMostOnePerEmitter
    /\ (last.op = "fork" /\ last.e \in last.before) =>
          /\ last.exc = "AssertionError"
          /\ last.same

\* Dispatcher.fork was called for a registered identity and raised.
C9_Witness ==
    /\ last.op = "fork"
    /\ last.e \in last.before
    /\ last.exc = "AssertionError"
    /\ last.e \in TblEids(eid_to_handler)

\* ---------------------------------------------------------------- C10
\* The call c is a single reactive function, registered for an emitter,
\* raising an error other than HandlerDone from its send.
FuncRaised(c) ==
    /\ c.ref # RootRef
    /\ c.of = 1
    /\ c.kind = "func"
    /\ c.via = "send"
    /\ c.out = "raise"

RaisedOnEvent == SendLike /\ last.calls # <<>> /\ FuncRaised(last.calls[1])

\* The event was the Joined of the handler's own scope.
OwnSignal == last.op = "join" /\ last.routed = <<last.e>>

\* C10 (as stated): handler-local errors.  When a reactive function handler
\* raises an error other than HandlerDone while handling an event sent through
\* an emitter, the sender sees nothing and the registration stays in the table.
C10_HandlerLocalErrors ==
    RaisedOnEvent =>
        /\ last.exc = "none"
        /\ last.calls[1].ref \in TblEids(eid_to_handler)

\* C10 (amended): the same, for every event but the Joined of the handler's
\* own scope: the sender sees nothing, the table and the handlers are as they
\* were, the registration is in the table with its handler not finished; and
\* an event routed to a registration is sent to its handler.
C10_HandlerLocalErrorsAmended ==
    /\ (RaisedOnEvent /\ ~OwnSignal) =>
          /\ last.exc = "none"
          /\ Len(last.calls) = 1
          /\ last.same
          /\ last.calls[1].ref \in TblEids(eid_to_handler)
          /\ ~H(D, last.calls[1].ref)[1].done
    /\ (SendLike /\ last.routed # <<>> /\ last.routed[1] # RootRef) =>
          /\ last.calls # <<>>
          /\ last.calls[1].ref = last.routed[1]
          /\ last.calls[1].via = "send"
          /\ last.calls[1].ev = last.ev

\* A registered function raised on a plain event and is still registered.
C10_Witness ==
    /\ last.op = "send"
    /\ RaisedOnEvent
    /\ last.calls[1].ref \in TblEids(eid_to_handler)

\* ---------------------------------------------------------------- C11
\* The call c is a single generator handler, registered for an emitter, that
\* returns or raises while it is sent an event.
GenCompleted(c) ==
    /\ c.ref # RootRef
    /\ c.of = 1
    /\ c.kind = "gen"
    /\ c.via = "send"
    /\ c.out \in {"return", "raise", "done"}

\* C11: coroutine completion.  When a registered generator handler returns or
\* raises while it is sent an event, the sender sees nothing and the
\* registration is gone when send returns; no finished single handler is ever
\* in the table, so no later event is routed to it; and the destruction of
\* emitters calls no handler but those of destroyed emitters that were still
\* registered (the finalizer went with the registration).
C11_CoroutineCompletion ==
    /\ (SendLike /\ last.calls # <<>> /\ GenCompleted(last.calls[1])) =>
          /\ last.exc = "none"
          /\ Len(last.calls) = 1
          /\ last.calls[1].ref \notin TblEids(eid_to_handler)
    /\ \A k \in 1..Len(eid_to_handler) :
          Len(eid_to_handler[k].h) = 1 => ~eid_to_handler[k].h[1].done
    /\ last.op = "drop" =>
          \A k \in 1..Len(last.calls) :
              last.calls[k].ref \in last.died \cap last.before

\* A generator registered for the sending emitter raised on a plain event.
C11_Witness ==
    /\ last.op = "send"
    /\ last.calls # <<>>
    /\ GenCompleted(last.calls[1])
    /\ last.calls[1].out = "raise"
    /\ last.calls[1].ref = last.e
    /\ last.e \notin TblEids(eid_to_handler)

\* ---------------------------------------------------------------- C12
\* The members of the handler ref that were not done before the operation.
LiveBefore(ref) == {x \in last.live : x.ref = ref}

\* The handler ref was a compound one with none of its members done.
CompoundAllLive(ref) ==
    /\ LiveBefore(ref) # {}
    /\ \A x \in LiveBefore(ref) : x.of > 1 /\ Cardinality(LiveBefore(ref)) = x.of

\* The call c is a function raising an error other than HandlerDone from send.
RaisingMember(c) == c.kind = "func" /\ c.via = "send" /\ c.out = "raise"

\* The call c is a member handling the event it is sent and staying alive.
NormalMember(c) ==
    /\ c.via = "send"
    /\ \/ c.kind = "func" /\ c.out = "return"
       \/ c.kind = "gen" /\ c.out = "yield"

\* An event, not the Joined of its own scope, went to a registered compound
\* handler none of whose members was done; no member completed on it and a
\* function member raised.
IsolationCase ==
    /\ SendLike
    /\ ~OwnSignal
    /\ last.routed # <<>>
    /\ last.routed[1] # RootRef
    /\ CompoundAllLive(last.routed[1])
    /\ \A k \in 1..Len(last.calls) :
          RaisingMember(last.calls[k]) \/ NormalMember(last.calls[k])
    /\ \E k \in 1..Len(last.calls) : RaisingMember(last.calls[k])

\* C12: compound handler isolation.  When a member of a registered compound
\* handler raises on an event, every member is still sent the event, once and
\* in member order, the sender sees nothing, and the table and the handlers
\* are as they were before the event (so the same holds for the next event).
C12_CompoundIsolation ==
    IsolationCase =>
        /\ \A x \in LiveBefore(last.routed[1]) : Len(last.calls) = x.of
        /\ \A i \in 1..Len(last.calls) :
              /\ last.calls[i].ref = last.routed[1]
              /\ last.calls[i].m = i
              /\ last.calls[i].via = "send"
              /\ last.calls[i].ev = last.ev
        /\ last.exc = "none"
        /\ last.same

\* H1 raised and H2, after it, handled the event.
C12_Witness ==
    /\ IsolationCase
    /\ last.op = "send"
    /\ Len(last.calls) = 2
    /\ RaisingMember(last.calls[1])
    /\ NormalMember(last.calls[2])
    /\ last.routed[1] \in TblEids(eid_to_handler)

\* H2 handled the event and H1, after it, raised.
C12_WitnessReversed ==
    /\ IsolationCase
    /\ last.op = "send"
    /\ Len(last.calls) = 2
    /\ NormalMember(last.calls[1])
    /\ RaisingMember(last.calls[2])

\* ---------------------------------------------------------------- C13
\* An event, not the Joined of its own scope, went to a registered compound
\* handler at least one member of which was not done.
CompoundEvent ==
    /\ SendLike
    /\ ~OwnSignal
    /\ last.routed # <<>>
    /\ last.routed[1] # RootRef
    /\ LiveBefore(last.routed[1]) # {}
    /\ \A x \in LiveBefore(last.routed[1]) : x.of > 1

\* The member x was sent the event of the operation.
SentTo(x) ==
    \E k \in 1..Len(last.calls) :
        /\ last.calls[k].ref = x.ref
        /\ last.calls[k].m = x.m
        /\ last.calls[k].via = "send"
        /\ last.calls[k].ev = last.ev

\* The member x is not done after the operation.
AliveAfter(x) ==
    \E k \in 1..Len(last.calls) :
        /\ last.calls[k].ref = x.ref
        /\ last.calls[k].m = x.m
        /\ Survives(last.calls[k])

\* C13: compound handler completion.  An event sent to a registered compound
\* handler with a member that is not done is sent to every member that is not
\* done and to no other, the sender sees nothing, and the registration is in
\* the table afterwards exactly when some member is still not done.
C13_CompoundCompletion ==
    CompoundEvent =>
        /\ last.exc = "none"
        /\ \A x \in LiveBefore(last.routed[1]) : SentTo(x)
        /\ \A k \in 1..Len(last.calls) :
              \E x \in LiveBefore(last.routed[1]) : x.m = last.calls[k].m
        /\ last.routed[1] \in TblEids(eid_to_handler)
              <=> \E x \in LiveBefore(last.routed[1]) : AliveAfter(x)

\* ---------------------------------------------------------------- C14
\* The registrations a termination signal was addressed to by the operation,
\* and the signal.
TermTargets ==
    CASE last.op = "join" /\ OwnSignal -> {last.e}
      [] last.op = "exit" -> {last.routed[k] : k \in 1..Len(last.routed)} \ {RootRef}
      [] last.op = "drop" -> last.died \cap last.before
      [] OTHER -> {}

TermSignal ==
    CASE last.op = "join" -> "Joined"
      [] last.op = "exit" -> "DispatcherClosed"
      [] OTHER -> "EmitterDeallocated"

\* The member x was given the termination signal, through send or throw.
OfferedTo(x) ==
    \E k \in 1..Len(last.calls) :
        /\ last.calls[k].ref = x.ref
        /\ last.calls[k].m = x.m
        /\ last.calls[k].ev = TermSignal

\* C14: compound handler termination.  When a termination signal is addressed
\* to a registered compound handler, every member that is not done is given
\* the signal, whatever the members before it do with it and whichever members
\* had completed before, and the registration is gone afterwards.
C14_CompoundTermination ==
    \A t \in TermTargets :
        (LiveBefore(t) # {} /\ \A x \in LiveBefore(t) : x.of > 1) =>
            /\ \A x \in LiveBefore(t) : OfferedTo(x)
            /\ t \notin TblEids(eid_to_handler)

\* ---------------------------------------------------------------- C15
\* A synchronous scoped use of a forked emitter has just ended: a with-block,
\* or a call on a function that returned a plain value or raised.
SyncScopedUse ==
    \/ last.op = "with"
    \/ last.op = "call" /\ last.arg \notin AsyncKinds

\* What escaped the scope of the last scoped use ("none": nothing).
Escaped == IF last.arg \in ExcVals THEN last.arg ELSE "none"

\* C15: every synchronous scoped use of a forked emitter (a with-block, or a
\* call of the emitter on a function that returns a plain value or raises)
\* sends exactly one Joined, with the child itself as sender, whose cause is
\* the error that escaped the scope, and absent when none did.
C15_ScopedUseSync ==
    SyncScopedUse =>
        last.sent = <<[sender |-> last.e, ev |-> "Joined", cause |-> Escaped]>>

\* ---------------------------------------------------------------- C16
\* The Joined events of the last operation.
JoinedSent == SelectSeq(last.sent, LAMBDA x : x.ev = "Joined")

\* The causes a Joined may carry after a completion with the given outcome.
CausesFor(outcome) ==
    CASE outcome = "result" -> {"none"}
      [] outcome = "Exception" -> {"Exception"}
      [] OTHER -> ExcVals

\* C16: a call of a forked emitter on a function that returns a coroutine or
\* a future sends no Joined by itself; when the operation completes, exactly
\* one Joined is sent, by the child: without cause after a result, with the
\* error as cause after a failure, and one as well after a cancellation.
C16_ScopedUseAsync ==
    /\ (last.op = "call" /\ last.arg \in AsyncKinds) => JoinedSent = <<>>
    /\ last.op = "complete" =>
          /\ Len(JoinedSent) = 1
          /\ JoinedSent[1].sender = last.e
          /\ JoinedSent[1].cause \in CausesFor(last.arg)

\* ---------------------------------------------------------------- C17
\* The live emitters somebody has called Dispatcher.fork for and whose
\* registration is in the table: the finalizer of the entry has not run.
Registered ==
    {e \in alive : \E k \in 1..Len(eid_to_handler) :
        eid_to_handler[k].eid = e /\ eid_to_handler[k].finalizers > 0}

\* A step of Emitter.forked: the event of the factory was sent once, by the
\* forking emitter, and went to the handler of its nearest registered
\* emitter or to the root handler, not to a table entry at the address of the
\* child; the child, if the call returned one, has the forking emitter as its
\* parent; the table has no key it did not have.
Announced ==
    /\ last'.sent = <<[sender |-> last'.e, ev |-> "Forked", cause |-> "none"]>>
    /\ last'.routed = <<Nearest(Registered, last'.e)>>
    /\ last'.routed[1] \notin alive' \ alive
    /\ \A c \in alive' \ alive : parent'[c] = last'.e
    /\ last'.exc = "none" => alive' # alive
    /\ TblEids(eid_to_handler') \subseteq TblEids(eid_to_handler)

\* A step that sends an event through an emitter nobody has a registration
\* for: the event went to the nearest registered ancestor or to the root.
ToAncestor ==
    last'.e \notin Registered => last'.routed = <<Nearest(Registered, last'.e)>>

\* C17: fork announcement.  Emitter.forked(factory) creates a child of the
\* forking emitter, sends factory(child) exactly once with the parent as
\* sender, to the parent's nearest registered handler or the root handler and
\* never to a handler under the child's identity, before the child is
\* returned, and registers nothing; as long as nobody has registered a
\* handler for an emitter, every event sent through it is delivered to its
\* nearest registered ancestor or to the root handler.
C17_ForkAnnouncement ==
    [][/\ last'.op = "forked" => Announced
       /\ last'.op \in {"send", "join"} => ToAncestor]_vars

\* ---------------------------------------------------------------- C18
\* The position of the send that an event delivered by the last burst is from.
SendIndex(ev) == CHOOSE k \in 1..Len(last.sent) : last.sent[k].ev = ev

\* The k-th send of the last burst returned.
Returned(k) == k < Len(last.sent) \/ last.exc = "none"

RootLive == \A i \in 1..Len(root_handler) : ~root_handler[i].done

\* C18: delivery order.  For consecutive sends through an emitter of a
\* chain: every send makes the Dispatcher invoke one callable before it
\* returns, the handler calls happen in the order of the sends, each to the
\* handler matched for its send, a send that returned has been delivered to
\* its matched handler (for the root handler: if it is not finished), and an
\* event sent through an emitter with a live registration goes to that
\* registration's handler, not to a parent's.
C18_DeliveryOrder ==
    last.op = "burst" =>
        /\ Len(last.routed) = Len(last.sent)
        /\ \A i \in 1..Len(last.calls) :
              /\ \E k \in 1..Len(last.sent) : last.sent[k].ev = last.calls[i].ev
              /\ last.calls[i].ref = last.routed[SendIndex(last.calls[i].ev)]
              /\ \A j \in i..Len(last.calls) :
                    SendIndex(last.calls[i].ev) <= SendIndex(last.calls[j].ev)
        /\ \A k \in 1..Len(last.sent) :
              /\ (Returned(k) /\ (last.routed[k] # RootRef \/ RootLive)) =>
                    \E i \in 1..Len(last.calls) :
                        /\ last.calls[i].ev = last.sent[k].ev
                        /\ last.calls[i].ref = last.routed[k]
              /\ last.sent[k].sender \in Registered =>
                    last.routed[k] = last.sent[k].sender
        /\ last.e \in last.before => last.routed[1] = last.e

\* Two events were sent in a row through a registered child of a registered
\* or unregistered parent, and the child's handler got both, in that order.
C18_Witness ==
    /\ last.op = "burst"
    /\ parent[last.e] # NoEmitter
    /\ last.e \in last.before
    /\ Len(last.sent) = 2
    /\ last.sent[2].sender = last.e
    /\ Len(last.calls) = 2
    /\ last.calls[1].ev = last.sent[1].ev /\ last.calls[1].ref = last.e
    /\ last.calls[2].ev = last.sent[2].ev /\ last.calls[2].ref = last.e

\* ---------------------------------------------------------------- C19
\* The event matches cancel_if or until of the wait.
Hit(event) ==
    cond_matches(waiter.cancel_if, event) \/ cond_matches(waiter.until, event)

Running == waiter.state \in {"suspended", "done"}

\* The last event the generator received.
LastReceived == waiter.received[Len(waiter.received)]

\* C19: wait combinator cancellation.  A wait made by wait(until, cancel_if)
\* stays suspended as long as no event it is sent matches cancel_if or
\* until; it ends at the first event that does, failing with WaitCancelled
\* that carries that very event if the event matches cancel_if and returning
\* that event otherwise; it takes no event after that one.  So
\* wait(until={EventX}, cancel_if={EventY}) sent an EventZ and then an EventY
\* is suspended after the first and cancelled, carrying the EventY, by the
\* second.
C19_WaitCancellation ==
    (Running /\ waiter.through = passthrough) =>
        /\ \A k \in 1..(Len(waiter.received) - 1) : ~Hit(waiter.received[k])
        /\ waiter.state = "suspended" =>
              /\ \A k \in 1..Len(waiter.received) : ~Hit(waiter.received[k])
              /\ waiter.outcome = "none" /\ waiter.value = NoEvent
        /\ waiter.state = "done" =>
              /\ waiter.received # <<>>
              /\ Hit(LastReceived)
              /\ waiter.value = LastReceived
              /\ waiter.outcome = IF cond_matches(waiter.cancel_if, LastReceived)
                                  THEN "WaitCancelled" ELSE "returned"

\* wait(until={EventX}, cancel_if={EventY}) was sent an EventZ, then an
\* EventY, and was cancelled by the EventY.
C19_Witness ==
    /\ waiter.through = passthrough
    /\ waiter.until = [fn |-> "none", types |-> {"EventX"}]
    /\ waiter.cancel_if = [fn |-> "none", types |-> {"EventY"}]
    /\ Len(waiter.received) = 2
    /\ waiter.received[1].type = "EventZ"
    /\ waiter.received[2].type = "EventY"
    /\ waiter.outcome = "WaitCancelled"
    /\ waiter.value = waiter.received[2]

\* ---------------------------------------------------------------- C20
\* The filter f of the wait does not hand the event back.
Differs(event) == Through(waiter.through, event) # event

\* C20: wait combinator filtering.  An event that the filter f of a wait made
\* by wait_through(f) rejects (f(event) differs from the event) neither
\* completes nor cancels the wait, whatever it matches: it is never the event
\* the wait ends with, and after it the wait is suspended for the next event.
C20_WaitFiltering ==
    Running =>
        \A k \in 1..Len(waiter.received) :
            Differs(waiter.received[k]) =>
                /\ waiter.value # waiter.received[k]
                /\ k = Len(waiter.received) =>
                      waiter.state = "suspended" /\ waiter.outcome = "none"

\* The wait has received an event that matches cancel_if and one that
\* matches until, the filter rejected both, and the wait is still suspended.
C20_Witness ==
    /\ waiter.state = "suspended"
    /\ \E k \in 1..Len(waiter.received) :
          Differs(waiter.received[k]) /\ cond_matches(waiter.cancel_if, waiter.received[k])
    /\ \E k \in 1..Len(waiter.received) :
          /\ Differs(waiter.received[k])
          /\ cond_matches(waiter.until, waiter.received[k])
          /\ ~cond_matches(waiter.cancel_if, waiter.received[k])

\* ---------------------------------------------------------------- C21
VoidOp == last.op \in {"void_send", "void_forked", "void_enter"}

\* C21: void emitter.  A send on the void emitter reaches no Dispatcher and no
\* handler and leaves the table as it is; forked on the void emitter gives a
\* void emitter again (an object that is false and whose send does nothing)
\* and sends no Forked event; the void emitter is false and real emitters
\* are true.
C21_VoidEmitter ==
    /\ VoidOp => /\ last.sent = <<>> /\ last.routed = <<>> /\ last.calls = <<>>
                 /\ last.same
    /\ last.op = "void_send" => last.exc = "none"
    /\ last.op = "void_forked" => obtained = "_VoidEmitter" /\ ~Truth(obtained)
    /\ ~Truth("_VoidEmitter") /\ Truth("Emitter") /\ Truth("_ForkedEmitter")

\* ---------------------------------------------------------------------------
\* A removal was attempted on a registration that was no longer in the table:
\* the del in cleanup() raised KeyError, to the sender or inside a finalizer.
RemovalFailed == last.exc = "KeyError" \/ "KeyError" \in last.dropped

\* C22: every registration is removed exactly once: once it has been removed
\* no later step tries to remove it again, neither the delivery that was in
\* progress when it was removed (a handler that sends through its own emitter
\* while it handles an event) nor a finalizer or a shutdown that runs later.
C22_RemovedOnce == ~RemovalFailed

\* ---------------------------------------------------------------------------
\* C23: the Dispatcher never runs two deliveries at once: no handler is called
\* while a handler is executing (also when the executing handler sends an
\* event or a finalizer fires during the delivery), and a generator that is
\* executing is never resumed.
C23_OneDeliveryAtATime ==
    \A k \in 1..Len(last.calls) :
       /\ last.calls[k].during = {}
       /\ last.calls[k].out # "ValueError"

\* ---------------------------------------------------------------------------
\* The calls that deliver EmitterDeallocated to a registration while some
\* handler is executing.
HookDuringDelivery ==
    {k \in 1..Len(last.calls) : /\ last.calls[k].ev = "EmitterDeallocated"
                                /\ last.calls[k].during # {}}

\* C24: the finalizer of an emitter E never runs in the middle of a delivery
\* to E's registration: while an event sent through E or a descendant of E is
\* being delivered E is referred to and cannot be destroyed, so no
\* EmitterDeallocated reaches the handler that is executing, and the table
\* entry of that handler is not removed under it by E's finalizer.
C24_NoHookDuringOwnDelivery ==
    \A k \in HookDuringDelivery : last.calls[k].ref \notin last.calls[k].during

\* The handler of E released the last application reference to E while it
\* handled an event; E was destroyed, and its finalizer ran, when send had
\* returned.
C24_Witness ==
    /\ last.op = "reenter"
    /\ last.arg.act = "release"
    /\ last.calls # <<>>
    /\ last.calls[1].ref = last.arg.x
    /\ last.arg.x \in last.died
    /\ \E k \in 2..Len(last.calls) : /\ last.calls[k].ev = "EmitterDeallocated"
                                      /\ last.calls[k].ref = last.arg.x
                                      /\ last.calls[k].during = {}

\* ---------------------------------------------------------------------------
\* The calls of throw on a member of the root handler, which stays reachable
\* after the call (a table entry goes away with its handler).
RootThrows == {k \in 1..Len(last.calls) : /\ last.calls[k].via = "throw"
                                          /\ last.calls[k].ref = RootRef}

\* C25: throw on a normalized handler never returns normally, and whatever
\* the function or generator does with the signal (lets it propagate, raises
\* another error, returns, or catches it and suspends again) the handler is
\* done afterwards.
C25_TerminateContract ==
    \A k \in RootThrows : root_handler[last.calls[k].m].done

\* ---------------------------------------------------------------------------
\* C26: a generator handler that raises before its first yield while it is
\* being registered does not make Dispatcher.fork raise: the failure is
\* logged, fork returns, and the table and the handlers are as they were.
C26_BootstrapErrors ==
    last.op = "fork" => /\ last.exc # "Error"
                        /\ last.exc # "none" => last.same

\* ---------------------------------------------------------------------------
\* C27: no stale registrations: every key of the table is the identity of an
\* emitter that is alive; once an emitter has been destroyed no entry keyed
\* by its identity remains, whatever the kind of its handler.
C27_NoStaleRegistrations == TblEids(eid_to_handler) \subseteq alive

\* ---------------------------------------------------------------------------
\* A scope was closed on an emitter without a registration of its own, below
\* a registered ancestor.
DescendantJoin ==
    /\ last.op = "join"
    /\ last.e \notin last.before
    /\ Nearest(last.before, last.e) # RootRef

\* The handler was only sent events, and each time it went on: a function
\* returned or raised an error of its own, a generator suspended again.
HandlerWentOn ==
    \A k \in 1..Len(last.calls) :
       /\ last.calls[k].via = "send"
       /\ last.calls[k].out \in (IF last.calls[k].kind = "func"
                                 THEN {"return", "raise"} ELSE {"yield"})

\* C28: the Joined of a descendant emitter that has no registration reaches
\* the handler of the nearest registered ancestor as an ordinary event: it is
\* sent to it once and never thrown into it, and unless the handler itself
\* completes in response the ancestor's registration stays as it was.
C28_DescendantJoin ==
    DescendantJoin =>
        /\ last.exc = "none"
        /\ Len(last.calls) = 1
        /\ last.calls[1].ref = Nearest(last.before, last.e)
        /\ last.calls[1].via = "send"
        /\ last.calls[1].ev = "Joined"
        /\ HandlerWentOn => /\ last.same
                            /\ Nearest(last.before, last.e) \in TblEids(eid_to_handler)

\* A generator registered for an ancestor received the Joined of an
\* unregistered descendant, suspended again and is still registered.
C28_Witness ==
    /\ DescendantJoin
    /\ HandlerWentOn
    /\ last.calls # <<>>
    /\ last.calls[1].kind = "gen"
    /\ last.calls[1].ref \in TblEids(eid_to_handler)

\* ---------------------------------------------------------------------------
\* The entry of e in the table, which must be there.
Entry(e) == eid_to_handler[TblIdx(eid_to_handler, e)]

\* The calls made to the handler registered for s in the last operation.
CallsTo(s) == {k \in 1..Len(last.calls) : last.calls[k].ref = s}

\* C29: once the handler of an emitter E that is still alive has completed,
\* its registration is gone and its finalizer detached: registering a new
\* handler for E succeeds, and when E is destroyed later exactly one
\* EmitterDeallocated is delivered, to the new handler, no finalizer fails on
\* the old one, and no entry for E remains.
C29_ReRegistration ==
    /\ last.op = "refork" =>
          /\ last.exc = "none"
          /\ last.e \notin last.before
          /\ last.e \in TblEids(eid_to_handler)
          /\ Entry(last.e).finalizers = 1
          /\ \A i \in 1..Len(Entry(last.e).h) : ~Entry(last.e).h[i].done
    /\ last.op = "drop" =>
          \A s \in last.died \cap last.again :
             /\ Cardinality(CallsTo(s)) = 1
             /\ \A k \in CallsTo(s) : /\ last.calls[k].via = "throw"
                                       /\ last.calls[k].ev = "EmitterDeallocated"
             /\ last.dropped = {}
             /\ s \notin TblEids(eid_to_handler)

\* An emitter whose second registration was live has been destroyed.
C29_Witness ==
    /\ last.op = "drop"
    /\ last.died \cap last.again # {}
    /\ \E s \in last.died \cap last.again : CallsTo(s) # {}

\* ---------------------------------------------------------------------------
\* An event was sent that matched no registration.
Unmatched == SendLike /\ Nearest(last.before, last.e) = RootRef

\* No member of the root handler was live before the operation.
RootCompleted == \A x \in last.live : x.ref # RootRef

\* C30: an event that matches no registration goes to the root handler and to
\* nothing else, and the sender sees no exception whatever the root handler
\* does; once the root handler has completed, or the Dispatcher has been
\* closed, such events are dropped without any call of the root handler.
C30_RootContainment ==
    Unmatched =>
        /\ last.exc = "none"
        /\ last.routed = <<RootRef>>
        /\ \A k \in 1..Len(last.calls) : last.calls[k].ref = RootRef
        /\ RootCompleted \/ last.afterClose => last.calls = <<>>

\* ---------------------------------------------------------------------------
\* The event passes the filter of the wait and matches both of its conditions.
MatchesBoth(event) ==
    /\ ~Differs(event)
    /\ cond_matches(waiter.cancel_if, event)
    /\ cond_matches(waiter.until, event)

\* C31: wait combinator precedence.  When an event that passes the filter
\* matches both cancel_if and until, the wait that receives it fails with
\* WaitCancelled carrying that event and does not return it: cancel_if is
\* checked before until.
C31_WaitPrecedence ==
    Running =>
        \A k \in 1..Len(waiter.received) :
            MatchesBoth(waiter.received[k]) =>
                /\ k = Len(waiter.received)
                /\ waiter.state = "done"
                /\ waiter.outcome = "WaitCancelled"
                /\ waiter.value = waiter.received[k]

\* wait(until={EventX1}, cancel_if={EventX}) was sent an event of another
\* class and then an EventX1, which is an EventX too, and was cancelled by it.
C31_Witness ==
    /\ waiter.through = passthrough
    /\ waiter.until = [fn |-> "none", types |-> {"EventX1"}]
    /\ waiter.cancel_if = [fn |-> "none", types |-> {"EventX"}]
    /\ Len(waiter.received) = 2
    /\ ~Hit(waiter.received[1])
    /\ waiter.received[2].type = "EventX1"
    /\ MatchesBoth(waiter.received[2])
    /\ waiter.outcome = "WaitCancelled"
    /\ waiter.value = waiter.received[2]
====
